---- MODULE Spec2Model ----
(***************************************************************************)
(* Model of the route-sampling / street-view pipeline:                     *)
(*   routing.py    load_api_key, get_directions, calculate_heading,        *)
(*                 interpolate_points, calculate_headings, save_geojson,   *)
(*                 create_map, main                                        *)
(*   streetview.py API_KEY, fetch_streetview, get_path_imgs                *)
(*                                                                         *)
(* Numbers.  Python floats are binary floating point numbers; they are     *)
(* modelled as integers counted in units of 2^-FRAC that carry at most     *)
(* PREC significant bits, and every float division and multiplication      *)
(* rounds to nearest, ties to even, as IEEE-754 does (PREC is 53 there).   *)
(* Angles in degrees are counted in units of 1/(DegRes*SubRes) degree.     *)
(* An optional value (None or v) is the set {} or {v}.                     *)
(***************************************************************************)
EXTENDS Integers, Sequences, FiniteSets, TLC

\* ---- bounds of the model ----
PREC == 4          \* significant bits of a float
FRAC == 8          \* a float is an integer number of 2^-FRAC
MaxCount == 4      \* largest num_points
MaxNeg == 2        \* num_points ranges over -MaxNeg .. MaxCount
GridMax == 3       \* polyline vertices lie on the grid 0..GridMax squared
MaxVertices == 3   \* a polyline has 2..MaxVertices vertices
DegRes == 2        \* float grid near 360 degrees: 1/DegRes degree
SubRes == 2        \* atan2 results are finer than that grid by this factor

VARIABLES
    pc,             \* position of the running entry point
    entry,          \* "main" (routing.py) or "get_path_imgs" (streetview.py)
    env,            \* process environment: the two API keys, each {} or {key}
    num_points,     \* the count handed to interpolate_points
    line,           \* LineString built from the route response
    spaced_points,  \* result of interpolate_points
    trig,           \* results of math.atan2 (in degrees) used by calculate_headings
    heading_data,   \* result of calculate_headings
    path_imgs,      \* list built by get_path_imgs
    log,            \* what the outside world saw: requests sent, files written
    err,            \* the exception that ended the run, or "none"
    call,           \* a direct call of one function: its arguments
    ret             \* ... and its result

vars == <<pc, entry, env, num_points, line, spaced_points, trig, heading_data,
          path_imgs, log, err, call, ret>>

\* ---------------------------------------------------------------------
\* Floating point arithmetic
\* ---------------------------------------------------------------------
Pow2(n) == 2 ^ n

Unit == Pow2(FRAC)

Abs(a) == IF a < 0 THEN 0 - a ELSE a

Sign(a) == IF a < 0 THEN 0 - 1 ELSE IF a > 0 THEN 1 ELSE 0

SetMax(S) == CHOOSE m \in S : \A o \in S : o <= m

\* spacing of the floats around the positive rational num/den
Ulp(num, den) ==
    LET S == {j \in 0..(FRAC + 3) : Pow2(PREC - 1) * Pow2(j) * den <= num}
    IN  IF S = {} THEN 1 ELSE Pow2(SetMax(S))

\* round half to even of the non-negative rational num/den
RoundHalfEven(num, den) ==
    LET fl == num \div den
        r2 == 2 * (num - fl * den)
    IN  IF r2 > den \/ (r2 = den /\ fl % 2 = 1) THEN fl + 1 ELSE fl

\* the float nearest to the non-negative rational num/den
FRound(num, den) ==
    LET u == Ulp(num, den) IN u * RoundHalfEven(num, den * u)

\* float a / float b, b # 0
FDiv(a, b) == Sign(a) * Sign(b) * FRound(Abs(a) * Unit, Abs(b))

\* float a * float b
FMul(a, b) == Sign(a) * Sign(b) * FRound(Abs(a) * Abs(b), Unit)

\* int -> float
ToFloat(n) == Sign(n) * FRound(Abs(n) * Unit, 1)

\* math.ceil of a float
Ceil(a) == IF a >= 0 THEN (a + Unit - 1) \div Unit ELSE 0 - (Abs(a) \div Unit)

\* ---------------------------------------------------------------------
\* shapely LineString: a sequence of (x, y) vertices; the model's lines have
\* axis-parallel segments between grid points, so every length is an integer
\* ---------------------------------------------------------------------
Grid == 0..GridMax

Vertex == Grid \X Grid

SegLen(a, b) == Abs(b[1] - a[1]) + Abs(b[2] - a[2])

AxisParallel(a, b) == a[1] = b[1] \/ a[2] = b[2]

Lines ==
    UNION {{l \in [1..n -> Vertex] :
               \A i \in 1..(n - 1) : AxisParallel(l[i], l[i + 1])} :
           n \in 2..MaxVertices}

RECURSIVE LengthUpTo(_, _)
\* length of the first k segments, in grid steps
LengthUpTo(l, k) ==
    IF k = 0 THEN 0 ELSE LengthUpTo(l, k - 1) + SegLen(l[k], l[k + 1])

\* line.length, a float
LineLength(l) == ToFloat(LengthUpTo(l, Len(l) - 1))

\* line.interpolate(distance, normalized=True): the point at the fraction
\* `distance` of the line's length, by linear interpolation inside the segment
\* that holds it; coordinates are floats
LineInterpolate(l, distance) ==
    LET total == LineLength(l)
        pos == FMul(distance, total)
        n == Len(l) - 1
        last == [x |-> l[n + 1][1] * Unit, y |-> l[n + 1][2] * Unit]
        first == [x |-> l[1][1] * Unit, y |-> l[1][2] * Unit]
        S == {k \in 1..n : pos <= LengthUpTo(l, k) * Unit}
    IN  IF pos <= 0 THEN first
        ELSE IF S = {} THEN last
        ELSE LET k == CHOOSE j \in S : \A o \in S : j <= o
                 off == pos - LengthUpTo(l, k - 1) * Unit
             IN  [x |-> l[k][1] * Unit + Sign(l[k + 1][1] - l[k][1]) * off,
                  y |-> l[k][2] * Unit + Sign(l[k + 1][2] - l[k][2]) * off]

\* ---------------------------------------------------------------------
\* routing.interpolate_points
\* ---------------------------------------------------------------------
\* np.arange(0, 1, step): ceil((1 - 0) / step) values 0 + i * step
Arange01(step) ==
    LET n == Ceil(FDiv(Unit, step))
    IN  IF n <= 0 THEN << >> ELSE [i \in 1..n |-> FMul(ToFloat(i - 1), step)]

\* the step handed to np.arange: (line.length / num_points) / line.length
StepOf(l, n) == FDiv(FDiv(LineLength(l), ToFloat(n)), LineLength(l))

\* distances_on_line; both divisions raise ZeroDivisionError on a zero divisor
distances_on_line(l, n) ==
    IF n = 0 \/ LineLength(l) = 0 THEN << >> ELSE Arange01(StepOf(l, n))

interpolate_points(l, n) ==
    IF n = 0 \/ LineLength(l) = 0
    THEN [err |-> "ZeroDivisionError", pts |-> << >>]
    ELSE LET d == distances_on_line(l, n)
         IN  [err |-> "none",
              pts |-> [i \in 1..Len(d) |-> LineInterpolate(l, d[i])]]

Counts == (0 - MaxNeg)..MaxCount

\* ---------------------------------------------------------------------
\* routing.calculate_heading
\* ---------------------------------------------------------------------
DegScale == DegRes * SubRes

\* The values math.degrees(math.atan2(x, y)) can take for the x and y the
\* function computes from point1 and point2 (longitudes less than 180 degrees
\* apart, latitudes inside (-90, 90)).  Equal longitudes give x = 0 and the
\* result is 0 or 180 exactly; x has the sign of the longitude difference
\* otherwise, which puts the result in (0, 180] or [-180, 0).
Atan2Degrees(point1, point2) ==
    IF point1.x = point2.x
    THEN IF point2.y < point1.y THEN {180 * DegScale} ELSE {0}
    ELSE IF point2.x > point1.x
         THEN 1..(180 * DegScale)
         ELSE {0 - a : a \in 1..(180 * DegScale)}

\* (math.degrees(initial_bearing) + 360) % 360: the sum is rounded to a float
\* (a multiple of 1/DegRes degree), result counted in 1/DegRes degree
compass_bearing(atan2deg) ==
    RoundHalfEven(atan2deg + 360 * DegScale, SubRes) % (360 * DegRes)

\* Python round(): nearest integer, ties to even
PyRound(bearing) == RoundHalfEven(bearing, DegRes)

calculate_heading_unmapped(atan2deg) ==
    PyRound(compass_bearing(atan2deg))

calculate_heading_mod360(atan2deg) ==
    PyRound(compass_bearing(atan2deg)) % 360

calculate_heading(atan2deg) ==
    IF PyRound(compass_bearing(atan2deg)) > 0
    THEN PyRound(compass_bearing(atan2deg))
    ELSE 360

\* ---------------------------------------------------------------------
\* routing.calculate_headings
\* ---------------------------------------------------------------------
HeadingEntry(pts, i, t) ==
    [coordinates |-> <<pts[i].x, pts[i].y>>, heading |-> {calculate_heading(t[i])}]

LastEntry(pts) ==
    [coordinates |-> <<pts[Len(pts)].x, pts[Len(pts)].y>>, heading |-> {}]

\* t[i] is the atan2 result for the pair (pts[i], pts[i + 1]); on an empty
\* list spaced_points[-1] raises IndexError
calculate_headings(pts, t) ==
    IF Len(pts) = 0
    THEN [err |-> "IndexError", data |-> << >>]
    ELSE [err |-> "none",
          data |-> [i \in 1..(Len(pts) - 1) |-> HeadingEntry(pts, i, t)]
                       \o <<LastEntry(pts)>>]

RECURSIVE Product(_, _)
\* the sequences that take their i-th element from sets[i], i in 1..k
Product(sets, k) ==
    IF k = 0 THEN {<< >>}
    ELSE {Append(t, a) : t \in Product(sets, k - 1), a \in sets[k]}

\* atan2 results sampled in a run: next to due north, and due east or west
TrigSample(point1, point2) ==
    {a \in Atan2Degrees(point1, point2) : Abs(a) \in {0, 1, 90 * DegScale, 180 * DegScale}}

\* the atan2 results one call of calculate_headings can see, one per pair
TrigFor(pts) ==
    LET n == IF Len(pts) = 0 THEN 0 ELSE Len(pts) - 1
    IN  Product([i \in 1..n |-> TrigSample(pts[i], pts[i + 1])], n)

\* ---------------------------------------------------------------------
\* streetview.fetch_streetview
\* ---------------------------------------------------------------------
MaxImgSize == 640

Sentinel == << >>

Truthy(opt) == opt # {} /\ opt # {0}

\* the f-string URL: which parameters it carries and their values
StreetViewUrl(lat, long, img_size, heading, pitch, key) ==
    [size |-> img_size, location |-> <<lat, long>>, key |-> key,
     heading |-> IF Truthy(heading) THEN heading ELSE {},
     pitch |-> IF Truthy(pitch) THEN pitch ELSE {}]

SizeRejectedAnd(img_size) == img_size[1] > MaxImgSize /\ img_size[2] > MaxImgSize

SizeRejected(img_size) == img_size[1] > MaxImgSize \/ img_size[2] > MaxImgSize

\* the decoded picture the provider serves for a request
ProviderImage(url) == <<"image", url.location[1], url.location[2]>>

\* status is the provider's answer, consulted only if the request is sent
fetch_streetview(lat, long, img_size, heading, pitch, key, status) ==
    IF SizeRejected(img_size)
    THEN [sent |-> FALSE, image |-> Sentinel]
    ELSE LET url == StreetViewUrl(lat, long, img_size, heading, pitch, key)
         IN  [sent |-> TRUE, url |-> url, status |-> status,
              image |-> IF status = 200 THEN ProviderImage(url) ELSE Sentinel]

Statuses == {200, 403}

\* ---------------------------------------------------------------------
\* Direct calls of interpolate_points
\* ---------------------------------------------------------------------
Idle ==
    /\ pc = "idle" /\ entry = "none" /\ env = [route |-> {}, maps |-> {}]
    /\ num_points = 0 /\ line = << >> /\ spaced_points = << >> /\ trig = << >>
    /\ heading_data = << >> /\ path_imgs = << >> /\ log = << >> /\ err = "none"

IdleUnchanged ==
    UNCHANGED <<pc, entry, env, num_points, line, spaced_points, trig,
                heading_data, path_imgs, log, err>>

NoRet == [done |-> FALSE]

InitInterp ==
    /\ Idle
    /\ \E l \in Lines, n \in Counts :
          call = [fn |-> "interpolate_points", line |-> l, num_points |-> n]
    /\ ret = NoRet

CallInterpolatePoints ==
    /\ call.fn = "interpolate_points" /\ ~ret.done
    /\ LET r == interpolate_points(call.line, call.num_points)
       IN  ret' = [done |-> TRUE, err |-> r.err, pts |-> r.pts,
                   dist |-> distances_on_line(call.line, call.num_points)]
    /\ UNCHANGED call
    /\ IdleUnchanged

NextInterp == CallInterpolatePoints

SpecInterp == InitInterp /\ [][NextInterp]_vars

\* ---------------------------------------------------------------------
\* Direct calls of calculate_heading
\* ---------------------------------------------------------------------
GeoPoints == {[x |-> v[1] * Unit, y |-> v[2] * Unit] : v \in Vertex}

InitHeading ==
    /\ Idle
    /\ \E p1 \in GeoPoints, p2 \in GeoPoints :
          \E a \in Atan2Degrees(p1, p2) :
             call = [fn |-> "calculate_heading", point1 |-> p1, point2 |-> p2,
                     atan2deg |-> a]
    /\ ret = NoRet

CallCalculateHeading ==
    /\ call.fn = "calculate_heading" /\ ~ret.done
    /\ ret' = [done |-> TRUE, heading |-> calculate_heading(call.atan2deg)]
    /\ UNCHANGED call
    /\ IdleUnchanged

NextHeading == CallCalculateHeading

SpecHeading == InitHeading /\ [][NextHeading]_vars

\* ---------------------------------------------------------------------
\* Direct calls of fetch_streetview
\* ---------------------------------------------------------------------
ImgDims == {600, 640, 641, 800}

OptHeadings == {{}, {0}, {90}, {360}}

OptPitches == {{}, {0}, {10}}

InitFetch ==
    /\ Idle
    /\ \E w \in ImgDims, h \in ImgDims, hd \in OptHeadings, p \in OptPitches,
          k \in {{}, {"maps-key"}}, st \in Statuses :
          call = [fn |-> "fetch_streetview", lat |-> 0, long |-> 0,
                  img_size |-> <<w, h>>, heading |-> hd, pitch |-> p,
                  key |-> k, status |-> st]
    /\ ret = NoRet

CallFetchStreetview ==
    /\ call.fn = "fetch_streetview" /\ ~ret.done
    /\ LET r == fetch_streetview(call.lat, call.long, call.img_size,
                                 call.heading, call.pitch, call.key, call.status)
       IN  /\ ret' = [done |-> TRUE, sent |-> r.sent, image |-> r.image]
           /\ log' = IF r.sent
                     THEN <<[ev |-> "request", to |-> "imagery", idx |-> 1,
                             url |-> r.url, status |-> r.status]>>
                     ELSE log
    /\ UNCHANGED <<call, pc, entry, env, num_points, line, spaced_points, trig,
                   heading_data, path_imgs, err>>

NextFetch == CallFetchStreetview

SpecFetch == InitFetch /\ [][NextFetch]_vars

\* ---------------------------------------------------------------------
\* One run of an entry point: routing.main or streetview.get_path_imgs
\* ---------------------------------------------------------------------
DefaultNumPoints == 3   \* interpolate_points' default count (100), scaled down

\* start and end of a run: the start is the origin of the grid, the end is the
\* start itself, due north, due east, or off both axes
Start == <<0, 0>>

Destinations == {<<0, 0>>, <<0, GridMax>>, <<GridMax, 0>>, <<GridMax, GridMax - 1>>}

\* the polylines the route provider may answer with: from the start to the end
Routes == {l \in Lines : l[1] = Start /\ l[Len(l)] \in Destinations}

RouteRequest == [ev |-> "request", to |-> "route"]

FileWrite(name) == [ev |-> "write", file |-> name]

ImageryRequest(i, r) ==
    [ev |-> "request", to |-> "imagery", idx |-> i, url |-> r.url, status |-> r.status]

\* geojson.FeatureCollection of one Point feature per heading_data entry
HeadingGeojson(data) ==
    [i \in 1..Len(data) |->
        [geometry |-> [coordinates |-> data[i].coordinates],
         properties |-> [heading |-> data[i].heading]]]

Init ==
    /\ pc = "load_api_key"
    /\ entry \in {"main", "get_path_imgs"}
    /\ env \in [route : {{}, {"ors-key"}}, maps : {{}, {"maps-key"}}]
    /\ num_points \in (IF entry = "main" THEN {DefaultNumPoints} ELSE Counts)
    /\ line = << >> /\ spaced_points = << >> /\ trig = << >>
    /\ heading_data = << >> /\ path_imgs = << >> /\ log = << >>
    /\ err = "none"
    /\ call = [fn |-> "none"] /\ ret = NoRet

Raise(e) == pc' = "failed" /\ err' = e

\* load_api_key(): EnvironmentError when the variable is unset or empty
LoadApiKey ==
    /\ pc = "load_api_key"
    /\ IF env.route = {}
       THEN Raise("EnvironmentError")
       ELSE pc' = "get_directions" /\ err' = err
    /\ UNCHANGED <<entry, env, num_points, line, spaced_points, trig,
                   heading_data, path_imgs, log, call, ret>>

\* get_directions answered, and LineString(...) built from the answer
GetDirectionsOk ==
    /\ pc = "get_directions"
    /\ log' = Append(log, RouteRequest)
    /\ \E l \in Routes : line' = l
    /\ pc' = "interpolate_points"
    /\ UNCHANGED <<entry, env, num_points, spaced_points, trig, heading_data,
                   path_imgs, err, call, ret>>

GetDirectionsRetry ==
    /\ pc = "get_directions"
    /\ log' = Append(log, RouteRequest)
    /\ pc' = IF Len(log) = 0 THEN "get_directions" ELSE "failed"
    /\ err' = IF Len(log) = 0 THEN err ELSE "ApiError"
    /\ UNCHANGED <<entry, env, num_points, line, spaced_points, trig,
                   heading_data, path_imgs, call, ret>>

\* get_directions: client.directions raises, nothing catches it
GetDirectionsFail ==
    /\ pc = "get_directions"
    /\ log' = Append(log, RouteRequest)
    /\ Raise("ApiError")
    /\ UNCHANGED <<entry, env, num_points, line, spaced_points, trig,
                   heading_data, path_imgs, call, ret>>

InterpolatePoints ==
    /\ pc = "interpolate_points"
    /\ LET r == interpolate_points(line, num_points)
       IN  IF r.err # "none"
           THEN Raise(r.err) /\ spaced_points' = spaced_points
           ELSE pc' = "calculate_headings" /\ err' = err /\ spaced_points' = r.pts
    /\ UNCHANGED <<entry, env, num_points, line, trig, heading_data, path_imgs,
                   log, call, ret>>

CalculateHeadings ==
    /\ pc = "calculate_headings"
    /\ \E t \in TrigFor(spaced_points) :
          LET r == calculate_headings(spaced_points, t)
          IN  IF r.err # "none"
              THEN Raise(r.err) /\ UNCHANGED <<trig, heading_data>>
              ELSE /\ pc' = "save_heading_geojson" /\ err' = err
                   /\ trig' = t
                   /\ heading_data' = r.data
    /\ UNCHANGED <<entry, env, num_points, line, spaced_points, path_imgs,
                   log, call, ret>>

WriteStep(at, name, next) ==
    /\ pc = at
    /\ log' = Append(log, FileWrite(name))
    /\ pc' = next
    /\ UNCHANGED <<entry, env, num_points, line, spaced_points, trig,
                   heading_data, path_imgs, err, call, ret>>

SaveHeadingGeojson ==
    WriteStep("save_heading_geojson", "spaced_points_with_heading.geojson", "create_map")

CreateMap ==
    WriteStep("create_map", "route_with_interpolated_points.html", "save_route_geojson")

\* the last statement of main; get_path_imgs goes on to its loop
SaveRouteGeojson ==
    WriteStep("save_route_geojson", "route.geojson",
              IF entry = "main" THEN "done" ELSE "fetch_streetview")

FetchNextAbortOnFailure ==
    /\ pc = "fetch_streetview"
    /\ Len(path_imgs) < Len(HeadingGeojson(heading_data))
    /\ \E status \in Statuses :
          LET i == Len(path_imgs) + 1
              point == HeadingGeojson(heading_data)[i]
              coord == point.geometry.coordinates
              r == fetch_streetview(coord[2], coord[1], <<640, 640>>,
                                    point.properties.heading, {}, env.maps, status)
          IN  /\ log' = IF r.sent THEN Append(log, ImageryRequest(i, r)) ELSE log
              /\ path_imgs' = Append(path_imgs, r.image)
              /\ pc' = IF r.image = Sentinel THEN "done" ELSE pc
    /\ UNCHANGED <<entry, env, num_points, line, spaced_points, trig,
                   heading_data, err, call, ret>>

FetchNextRetryOnFailure ==
    /\ pc = "fetch_streetview"
    /\ Len(path_imgs) < Len(HeadingGeojson(heading_data))
    /\ \E status \in Statuses :
          LET i == Len(path_imgs) + 1
              point == HeadingGeojson(heading_data)[i]
              coord == point.geometry.coordinates
              r == fetch_streetview(coord[2], coord[1], <<640, 640>>,
                                    point.properties.heading, {}, env.maps, status)
          IN  /\ log' = IF r.sent THEN Append(log, ImageryRequest(i, r)) ELSE log
              /\ path_imgs' = IF r.image = Sentinel THEN path_imgs
                               ELSE Append(path_imgs, r.image)
    /\ UNCHANGED <<pc, entry, env, num_points, line, spaced_points, trig,
                   heading_data, err, call, ret>>

\* one iteration of `for point in heading_geojson['features']`
FetchNext ==
    /\ pc = "fetch_streetview"
    /\ Len(path_imgs) < Len(HeadingGeojson(heading_data))
    /\ \E status \in Statuses :
          LET i == Len(path_imgs) + 1
              point == HeadingGeojson(heading_data)[i]
              coord == point.geometry.coordinates
              r == fetch_streetview(coord[2], coord[1], <<640, 640>>,
                                    point.properties.heading, {}, env.maps, status)
          IN  /\ log' = IF r.sent THEN Append(log, ImageryRequest(i, r)) ELSE log
              /\ path_imgs' = Append(path_imgs, r.image)
    /\ UNCHANGED <<pc, entry, env, num_points, line, spaced_points, trig,
                   heading_data, err, call, ret>>

\* the loop is exhausted: return path_imgs
ReturnPathImgs ==
    /\ pc = "fetch_streetview"
    /\ Len(path_imgs) = Len(HeadingGeojson(heading_data))
    /\ pc' = "done"
    /\ UNCHANGED <<entry, env, num_points, line, spaced_points, trig,
                   heading_data, path_imgs, log, err, call, ret>>

Next ==
    \/ LoadApiKey
    \/ GetDirectionsOk
    \/ GetDirectionsFail
    \/ InterpolatePoints
    \/ CalculateHeadings
    \/ SaveHeadingGeojson
    \/ CreateMap
    \/ SaveRouteGeojson
    \/ FetchNext
    \/ ReturnPathImgs

Spec == Init /\ [][Next]_vars

\* =====================================================================
\* Properties
\* =====================================================================
Requests(l) == SelectSeq(l, LAMBDA e : e.ev = "request")

ImageryRequests(l) == SelectSeq(Requests(l), LAMBDA e : e.to = "imagery")

RouteRequests(l) == SelectSeq(Requests(l), LAMBDA e : e.to = "route")

Writes(l) == SelectSeq(l, LAMBDA e : e.ev = "write")

\* C1: calculate_heading returns an integer h with 1 <= h <= 360 for every
\* pair of points, equal points included: never 0, never more than 360.
C1_HeadingIn1To360 ==
    (call.fn = "calculate_heading" /\ ret.done) =>
        ret.heading \in 1..360

\* a bearing in [359.5, 360) that rounds up is returned as 360
C1_RoundsUpTo360 ==
    /\ call.fn = "calculate_heading" /\ ret.done
    /\ 2 * compass_bearing(call.atan2deg) >= 719 * DegRes
    /\ ret.heading = 360

\* C2: for a line of non-zero length and a count N >= 1, interpolate_points
\* returns exactly N points, the first at the path origin, at strictly
\* increasing normalized distances that start at 0 and stay below 1.0.
C2_ExactlyNPoints ==
    (call.fn = "interpolate_points" /\ ret.done /\ call.num_points >= 1
        /\ LineLength(call.line) > 0) =>
        /\ ret.err = "none"
        /\ Len(ret.pts) = call.num_points
        /\ Len(ret.dist) = call.num_points
        /\ ret.dist[1] = 0
        /\ ret.pts[1] = [x |-> call.line[1][1] * Unit, y |-> call.line[1][2] * Unit]
        /\ \A i \in 1..(Len(ret.dist) - 1) : ret.dist[i] < ret.dist[i + 1]
        /\ \A i \in 1..Len(ret.dist) : ret.dist[i] < Unit

\* C3: calculate_headings applied to the points interpolate_points returned
\* for N >= 1 gives exactly N entries in the order of the points; the first
\* N-1 carry the heading to the next point, in 1..360, and only the last
\* has no heading.
C3_NEntriesLastWithoutHeading ==
    (pc \notin {"load_api_key", "get_directions", "interpolate_points",
                "calculate_headings", "failed"} /\ num_points >= 1) =>
        /\ Len(spaced_points) = num_points
        /\ Len(heading_data) = num_points
        /\ \A i \in 1..Len(heading_data) :
              /\ heading_data[i].coordinates = <<spaced_points[i].x, spaced_points[i].y>>
              /\ i < Len(heading_data) =>
                    /\ heading_data[i].heading = {calculate_heading(trig[i])}
                    /\ heading_data[i].heading \subseteq 1..360
              /\ i = Len(heading_data) => heading_data[i].heading = {}

\* C4: with either API key missing from the environment, a run of
\* get_path_imgs sends no request to either provider.
C4_MissingKeyNoNetwork ==
    (entry = "get_path_imgs" /\ (env.route = {} \/ env.maps = {})) =>
        Requests(log) = << >>

\* C5: fetch_streetview with a width or a height above 640 returns the empty
\* sentinel and sends nothing; a request is sent only if both are <= 640.
C5_OversizeRejectedLocally ==
    (call.fn = "fetch_streetview" /\ ret.done) =>
        LET big == call.img_size[1] > 640 \/ call.img_size[2] > 640
        IN  /\ big => (ret.image = Sentinel /\ ~ret.sent /\ log = << >>)
            /\ ret.sent <=> ~big
            /\ ret.sent <=> Len(ImageryRequests(log)) = 1

\* the 800 x 600 request is answered locally
C5_Rejected800x600 ==
    /\ call.fn = "fetch_streetview" /\ ret.done
    /\ call.img_size = <<800, 600>>
    /\ ret.image = Sentinel /\ log = << >>

ExpectedLog(n) ==
    <<RouteRequest,
      FileWrite("spaced_points_with_heading.geojson"),
      FileWrite("route_with_interpolated_points.html"),
      FileWrite("route.geojson")>>
    \o [i \in 1..n |-> [ev |-> "request", to |-> "imagery", idx |-> i]]

Shape(e) ==
    IF e.ev = "request" /\ e.to = "imagery"
    THEN [ev |-> e.ev, to |-> e.to, idx |-> e.idx]
    ELSE e

\* C7: a run is sequential: one route request, then the sampling, then the
\* three files in their order, then one imagery request per sampled point in
\* path order, none repeated; the files written stay written whatever the
\* imagery requests return.
C7_SequentialRun ==
    /\ Len(log) <= 4 + Len(spaced_points)
    /\ \A i \in 1..Len(log) : Shape(log[i]) = ExpectedLog(Len(spaced_points))[i]
    /\ Len(log) >= 2 => (spaced_points # << >> /\ heading_data # << >>)
    /\ (pc = "done" /\ entry = "get_path_imgs") => Len(log) = 4 + Len(spaced_points)
    /\ (pc = "done" /\ entry = "main") => Len(log) = 4
    /\ pc = "fetch_streetview" => Len(Writes(log)) = 3

\* a completed run with at least two sampled points and a failed imagery request
C7_CompletedWithFailedFetch ==
    /\ entry = "get_path_imgs" /\ pc = "done" /\ Len(spaced_points) >= 2
    /\ \E i \in 1..Len(log) :
          log[i].ev = "request" /\ log[i].to = "imagery" /\ log[i].status # 200

\* C8: a failed route request ends the run with that error: it is the only
\* request ever sent, it is not repeated, and no file is written.
C8_RouteFailurePropagates ==
    /\ Len(RouteRequests(log)) <= 1
    /\ err = "ApiError" =>
          /\ pc = "failed"
          /\ log = <<RouteRequest>>
          /\ spaced_points = << >> /\ heading_data = << >> /\ path_imgs = << >>

\* the route request of routing.main failed
C8_RouteFailed ==
    err = "ApiError" /\ pc = "failed" /\ entry = "main"

\* C9: interpolate_points rejects every count <= 0 with an error.
C9_NonPositiveCountRejected ==
    (call.fn = "interpolate_points" /\ ret.done /\ call.num_points <= 0) =>
        ret.err # "none"

\* C10: the URL of an imagery request carries a heading exactly when the
\* point has one, with the computed value; only the request of the last
\* point goes without a heading.
C10_UrlHeadingIffPresent ==
    \A i \in 1..Len(log) :
        (log[i].ev = "request" /\ log[i].to = "imagery") =>
            LET k == log[i].idx
            IN  /\ log[i].url.heading = heading_data[k].heading
                /\ log[i].url.heading = {} <=> k = Len(heading_data)
                /\ k < Len(heading_data) =>
                      log[i].url.heading = {calculate_heading(trig[k])}

\* a due-north heading, rounded from 0, went out as heading=360
C10_NorthSentAs360 ==
    \E i \in 1..Len(log) :
        /\ log[i].ev = "request" /\ log[i].to = "imagery"
        /\ log[i].url.heading = {360}
        /\ PyRound(compass_bearing(trig[log[i].idx])) = 0

====
